---- MODULE Spec2Model ----
(***************************************************************************)
(* Model of the Poloniex client ("Poloniex Class/poloniex.py"): the class  *)
(* level rate window, public_query, signed_query, initialize, update_keys  *)
(* and __repr__, run by one caller (Spec, SpecKeys, SpecVerify, SpecLive), *)
(* through two instances (SpecClients) or by several threads on one client *)
(* (SpecConc).  Time is counted in ticks, TicksPerSec ticks to the second. *)
(***************************************************************************)
EXTENDS Integers, Sequences, FiniteSets, TLC

\* ---- bounds of the model ----
TicksPerSec == 1
MaxTime == 2
MaxAdmits == 6
MaxSigned == 1
MaxFails == 1
MaxRetries == 1
MaxKeysAdmits == 5
MaxKeysSigned == 2
MaxClientAdmits == 5
MaxVerifyAdmits == 5
MaxVerifySigned == 2
NThreads == 2

\* ---- constants of the program ----
WindowIndex == 4
RateSeconds == 1
BackoffSeconds == 3
MillisPerSec == 1000
ServerErrorLow == 500
ServerErrorHigh == 600
DefaultRetries == 2

Threads == 1..NThreads
\* The single caller of the sequential specifications: the first thread.
MainThread == CHOOSE t \in Threads : \A u \in Threads : t <= u

VARIABLES now, rate_timer, api_key, secret_key, connection, thr,
          sent, log, nfail

vars == <<now, rate_timer, api_key, secret_key, connection, thr,
          sent, log, nfail>>

\* ---- values ----
\* Credential pairs a caller may supply (access key text, secret text).
Credentials == { [key |-> "K1", secret |-> "S1"], [key |-> "K2", secret |-> "S2"] }
InitialCredentials == [key |-> "K1", secret |-> "S1"]

\* Instances of the class in one process: they have their own keys and
\* connection flag and share the class attribute rate_timer (line 33).  The
\* variables api_key, secret_key and connection are those of client "A".
Clients == {"A", "B"}

\* bytes(secret_key, 'latin-1'): a byte string, a different type from the text.
Latin1Bytes(text) == [type |-> "bytes", text |-> text]
Text(text) == [type |-> "str", text |-> text]

\* Raw response bodies the exchange may deliver, and json.loads on them.
\* A decoded mapping is a set of <<key, value>> pairs; dict([]) is {}.
Bodies == {"{}", "{BTC:1.5}", "<html>"}
ErrorBodies == {"{error:x}", "<html>"}
ValidJson(body) == body \in {"{}", "{BTC:1.5}", "{error:x}"}
JsonLoads(body) ==
    CASE body = "{}" -> {}
      [] body = "{BTC:1.5}" -> { <<"BTC", "1.5">> }
      [] body = "{error:x}" -> { <<"error", "x">> }
EmptyDict == {}

HttpCodes == {404, 502}
HasServerCode(err) == err.code # 0 /\ ServerErrorLow <= err.code /\ err.code < ServerErrorHigh

\* What urllib.request.urlopen(...).read() can do: deliver a body, or raise
\* HTTPError (with a code) or URLError / ContentTooShortError (without).
UrlopenOutcomes ==
    { [exc |-> "none", code |-> 200, body |-> b] : b \in Bodies }
    \cup { [exc |-> "HTTPError", code |-> c, body |-> ""] : c \in HttpCodes }
    \cup { [exc |-> "URLError", code |-> 0, body |-> ""] }

\* What requests.post can do: deliver a Response of any status (it does not
\* raise on 4xx/5xx), or raise its own ConnectionError.
PostOutcomes ==
    { [exc |-> "none", code |-> 200, body |-> b] : b \in Bodies }
    \cup { [exc |-> "none", code |-> c, body |-> b] : c \in HttpCodes, b \in ErrorBodies }
    \cup { [exc |-> "ConnectionError", code |-> 0, body |-> ""] }

\* The exception classes named by the except clauses of both queries.
CaughtErrors == {"URLError", "HTTPError", "ContentTooShortError"}

IsFailure(o) == o.exc # "none" \/ o.code # 200 \/ ~ValidJson(o.body)

\* ---- results of a call ----
NoResult == [tag |-> "none", value |-> {}, exc |-> "", via |-> ""]
Returned(v, via) == [tag |-> "return", value |-> v, exc |-> "", via |-> via]
Raised(e) == [tag |-> "raise", value |-> {}, exc |-> e, via |-> ""]

\* ---- per-thread frame ----
IdleFrame ==
    [pc |-> "idle", kind |-> "none", client |-> "A", init |-> FALSE, retries0 |-> 0, retries |-> 0,
     t |-> 0, r4 |-> 0, diff |-> 0, delay |-> 0, wake |-> 0, failed |-> 0,
     nonce |-> 0, secret |-> "", Key |-> "", args |-> InitialCredentials,
     auto_init |-> FALSE, result |-> NoResult, text |-> <<>>,
     attempts |-> 0, admits |-> 0, nonces |-> <<>>, hist |-> <<>>]

Init ==
    /\ now = 0
    /\ rate_timer = <<>>
    /\ api_key = InitialCredentials.key
    /\ secret_key = Latin1Bytes(InitialCredentials.secret)
    /\ connection = FALSE
    /\ thr = [t \in Threads |-> IdleFrame]
    /\ sent = <<>>
    /\ log = <<>>
    /\ nfail = 0

\* int(time.time()*1000) of a clock reading in ticks.
Nonce(clock) == (clock * MillisPerSec) \div TicksPerSec

\* ---- leaving a call ----
\* The frame of a finished call: its locals are gone; what the call was
\* (kind, init, retries0), what it did (attempts, admits, nonces, hist) and
\* its result stay on record until the thread's next call.
Finished(f, res) ==
    [IdleFrame EXCEPT !.kind = f.kind, !.init = f.init, !.retries0 = f.retries0,
                      !.attempts = f.attempts, !.admits = f.admits,
                      !.nonces = f.nonces, !.hist = f.hist, !.result = res]

\* A slip in lines 67-72: every query writes its outcome to the flag.
ReturnSetsConnection(t, f, res) ==
    /\ thr' = [thr EXCEPT ![t] = Finished(f, res)]
    /\ connection' = (res.value # EmptyDict)

\* A value returned to the caller; initialize() (lines 67-72, then 167) turns
\* the value of the balances query into the connection flag.
Return(t, f, res) ==
    /\ thr' = [thr EXCEPT ![t] = Finished(f, res)]
    /\ connection' = IF f.init THEN (res.value # EmptyDict) ELSE connection

\* An exception no frame catches: it leaves every frame of the call.
Raise(t, f, e) ==
    /\ thr' = [thr EXCEPT ![t] = Finished(f, Raised(e))]
    /\ UNCHANGED connection

\* ---- the clock ----
Sleeping(t) == thr[t].pc \in {"rl_wake", "backoff"} /\ thr[t].wake > now

\* The next step of thread t reads the clock: time.time() at lines 83 and
\* 130, or a return from rate_limit, whose moment the admission log records.
ReadsClock(t) ==
    \/ thr[t].pc \in {"rl_time", "rl_pop", "nonce"}
    \/ thr[t].pc = "rl_len" /\ Len(rate_timer) <= WindowIndex

\* Time passes.  It is let pass only where some thread is about to look at
\* the clock or is asleep: time that passes anywhere else shows in no
\* reading that time passing before the next reading does not show.
Tick ==
    /\ \/ now < MaxTime /\ \E t \in Threads : ReadsClock(t)
       \/ \E t \in Threads : Sleeping(t)
    /\ now' = now + 1
    /\ UNCHANGED <<rate_timer, api_key, secret_key, connection, thr,
                   sent, log, nfail>>

\* ---- rate_limit (lines 83-89) ----
AfterRateLimit(f) == IF f.kind = "public" THEN "urlopen" ELSE "post"

\* rate_limit returns True: the admission is logged and the query goes on,
\* or the call is over if rate_limit was called by itself.
RateLimitReturn(t, f) ==
    /\ thr' = [thr EXCEPT ![t] = IF f.kind = "rate_limit"
                                 THEN Finished(f, Returned(EmptyDict, "rate_limit"))
                                 ELSE [f EXCEPT !.pc = AfterRateLimit(f)]]
    /\ log' = Append(log, [start |-> f.t, ret |-> now, delay |-> f.delay,
                           client |-> f.client])

\* client.rate_limit(): the static method called through instance c.
StartRateLimit(t, c) ==
    /\ thr[t].pc = "idle"
    /\ thr' = [thr EXCEPT ![t] = [IdleFrame EXCEPT !.pc = "rl_time", !.kind = "rate_limit",
                                                !.client = c]]
    /\ UNCHANGED <<now, rate_timer, api_key, secret_key, connection,
                   sent, log, nfail>>

\* line 83, the argument: time.time()
RLTime(t) ==
    /\ thr[t].pc = "rl_time"
    /\ thr' = [thr EXCEPT ![t].pc = "rl_append", ![t].t = now, ![t].delay = 0]
    /\ UNCHANGED <<now, rate_timer, api_key, secret_key, connection,
                   sent, log, nfail>>

\* line 83: Poloniex.rate_timer.append(...)
RLAppend(t) ==
    /\ thr[t].pc = "rl_append"
    /\ rate_timer' = Append(rate_timer, thr[t].t)
    /\ thr' = [thr EXCEPT ![t].pc = "rl_len", ![t].admits = @ + 1]
    /\ UNCHANGED <<now, api_key, secret_key, connection,
                   sent, log, nfail>>

\* line 84: if len(Poloniex.rate_timer) > 4
RLLen(t) ==
    /\ thr[t].pc = "rl_len"
    /\ IF Len(rate_timer) > WindowIndex
       THEN /\ thr' = [thr EXCEPT ![t].pc = "rl_read4"]
            /\ UNCHANGED log
       ELSE RateLimitReturn(t, thr[t])
    /\ UNCHANGED <<now, rate_timer, api_key, secret_key, connection,
                   sent, nfail>>

\* line 85, left operand: Poloniex.rate_timer[4]
RLRead4(t) ==
    /\ thr[t].pc = "rl_read4"
    /\ IF Len(rate_timer) > WindowIndex
       THEN /\ thr' = [thr EXCEPT ![t].pc = "rl_read0", ![t].r4 = rate_timer[WindowIndex + 1]]
            /\ UNCHANGED connection
       ELSE Raise(t, thr[t], "IndexError")
    /\ UNCHANGED <<now, rate_timer, api_key, secret_key,
                   sent, log, nfail>>

\* line 85, right operand and subtraction: ... - Poloniex.rate_timer[0]
RLRead0(t) ==
    /\ thr[t].pc = "rl_read0"
    /\ IF Len(rate_timer) > 0
       THEN /\ thr' = [thr EXCEPT ![t].pc = "rl_sleep", ![t].diff = thr[t].r4 - rate_timer[1]]
            /\ UNCHANGED connection
       ELSE Raise(t, thr[t], "IndexError")
    /\ UNCHANGED <<now, rate_timer, api_key, secret_key,
                   sent, log, nfail>>

\* A slip in line 86: the comparison turned round.
BlocksInverted(diff) == diff >= RateSeconds * TicksPerSec

\* line 86: if diff <= 1
Blocks(diff) == diff <= RateSeconds * TicksPerSec

\* A slip in line 87: time.sleep(diff).
SleepTimeDiff(diff) == diff

\* line 87: the argument of time.sleep, 1-diff
SleepTime(diff) == RateSeconds * TicksPerSec - diff

\* lines 86-87: if diff <= 1: time.sleep(1-diff)
RLSleep(t) ==
    /\ thr[t].pc = "rl_sleep"
    /\ IF Blocks(thr[t].diff)
       THEN thr' = [thr EXCEPT ![t].pc = "rl_wake",
                               ![t].delay = SleepTime(thr[t].diff),
                               ![t].wake = now + SleepTime(thr[t].diff)]
       ELSE thr' = [thr EXCEPT ![t].pc = "rl_pop"]
    /\ UNCHANGED <<now, rate_timer, api_key, secret_key, connection,
                   sent, log, nfail>>

\* time.sleep returns once the requested time has passed.
RLWake(t) ==
    /\ thr[t].pc = "rl_wake"
    /\ now >= thr[t].wake
    /\ thr' = [thr EXCEPT ![t].pc = "rl_pop"]
    /\ UNCHANGED <<now, rate_timer, api_key, secret_key, connection,
                   sent, log, nfail>>

\* A slip in line 88: Poloniex.rate_timer.pop(), which evicts the newest.
RLPopNewest(t) ==
    /\ thr[t].pc = "rl_pop"
    /\ IF Len(rate_timer) > 0
       THEN /\ rate_timer' = SubSeq(rate_timer, 1, Len(rate_timer) - 1)
            /\ RateLimitReturn(t, thr[t])
            /\ UNCHANGED connection
       ELSE /\ Raise(t, thr[t], "IndexError")
            /\ UNCHANGED <<rate_timer, log>>
    /\ UNCHANGED <<now, api_key, secret_key, sent, nfail>>

\* lines 88-89: Poloniex.rate_timer.pop(0); return True
RLPop(t) ==
    /\ thr[t].pc = "rl_pop"
    /\ IF Len(rate_timer) > 0
       THEN /\ rate_timer' = Tail(rate_timer)
            /\ RateLimitReturn(t, thr[t])
            /\ UNCHANGED connection
       ELSE /\ Raise(t, thr[t], "IndexError")
            /\ UNCHANGED <<rate_timer, log>>
    /\ UNCHANGED <<now, api_key, secret_key, sent, nfail>>

\* ---- the except clause shared by both queries (lines 108-116, 140-148) ----
\* A slip in lines 109 / 141: retries >= 0.
RetriesOffByOne(f, err) == f.retries >= 0 /\ HasServerCode(err)

\* A slip in lines 110 / 142: the test for a 5xx code left out.
RetriesAnyError(f, err) == f.retries > 0

\* lines 109-110 / 141-142: the caught error is retried.
Retries(f, err) == f.retries > 0 /\ HasServerCode(err)

\* A slip in lines 111 / 143: time.sleep(1).
BackoffWakeShort(clock) == clock + RateSeconds * TicksPerSec

\* lines 111 / 143: time.sleep(3) begun at `clock` is over at this time.
BackoffWake(clock) == clock + BackoffSeconds * TicksPerSec

\* ---- public_query (lines 91-117) ----
\* public_query(req, retries) with retries drawn from R.
StartPublicWith(t, R) ==
    /\ thr[t].pc = "idle"
    /\ \E r \in R :
         thr' = [thr EXCEPT ![t] = [IdleFrame EXCEPT !.pc = "rl_time", !.kind = "public",
                                                     !.retries0 = r, !.retries = r]]
    /\ UNCHANGED <<now, rate_timer, api_key, secret_key, connection,
                   sent, log, nfail>>

StartPublic(t) == StartPublicWith(t, 0..MaxRetries)

\* lines 105-117: urlopen, the except clause, json.loads
Urlopen(t) ==
    /\ thr[t].pc = "urlopen"
    /\ \E o \in UrlopenOutcomes :
         LET f == [thr[t] EXCEPT !.attempts = @ + 1, !.hist = Append(@, o)] IN
         /\ IsFailure(o) => nfail < MaxFails
         /\ nfail' = IF IsFailure(o) THEN nfail + 1 ELSE nfail
         /\ IF o.exc \in CaughtErrors
            THEN IF Retries(f, o)
                 THEN /\ thr' = [thr EXCEPT ![t] =
                                   [f EXCEPT !.pc = "backoff", !.failed = now,
                                             !.wake = BackoffWake(now)]]
                      /\ UNCHANGED connection
                 ELSE Return(t, f, Returned(EmptyDict, "except"))
            ELSE IF ValidJson(o.body)
                 THEN Return(t, f, Returned(JsonLoads(o.body), "body"))
                 ELSE Raise(t, f, "JSONDecodeError")
    /\ UNCHANGED <<now, rate_timer, api_key, secret_key, sent, log>>

\* lines 111-112 / 143-144: time.sleep(3) is over; the query calls itself
\* with retries - 1.
Backoff(t) ==
    /\ thr[t].pc = "backoff"
    /\ now >= thr[t].wake
    /\ thr' = [thr EXCEPT ![t].pc = IF thr[t].kind = "public" THEN "rl_time" ELSE "nonce",
                          ![t].retries = @ - 1]
    /\ UNCHANGED <<now, rate_timer, api_key, secret_key, connection,
                   sent, log, nfail>>

\* ---- signed_query (lines 119-150) ----
\* signed_query(req, retries) with retries drawn from R.
StartSignedWith(t, R) ==
    /\ thr[t].pc = "idle"
    /\ \E r \in R :
         thr' = [thr EXCEPT ![t] = [IdleFrame EXCEPT !.pc = "nonce", !.kind = "signed",
                                                     !.retries0 = r, !.retries = r]]
    /\ UNCHANGED <<now, rate_timer, api_key, secret_key, connection,
                   sent, log, nfail>>

StartSigned(t) == StartSignedWith(t, 0..MaxRetries)

\* line 130: req['nonce'] = int(time.time()*1000)
SQNonce(t) ==
    /\ thr[t].pc = "nonce"
    /\ thr' = [thr EXCEPT ![t].pc = "sign", ![t].nonce = Nonce(now),
                          ![t].nonces = Append(@, Nonce(now))]
    /\ UNCHANGED <<now, rate_timer, api_key, secret_key, connection,
                   sent, log, nfail>>

\* lines 131-133: hmac.new(self.secret_key, data, sha512) takes a byte string
\* as its key and raises TypeError on text.
SQSign(t) ==
    /\ thr[t].pc = "sign"
    /\ IF secret_key.type = "bytes"
       THEN /\ thr' = [thr EXCEPT ![t].pc = "headers", ![t].secret = secret_key.text]
            /\ UNCHANGED connection
       ELSE Raise(t, thr[t], "TypeError")
    /\ UNCHANGED <<now, rate_timer, api_key, secret_key,
                   sent, log, nfail>>

\* line 134: headers = dict(Key=self.api_key, Sign=signature); line 135
\* enters rate_limit.
SQHeaders(t) ==
    /\ thr[t].pc = "headers"
    /\ thr' = [thr EXCEPT ![t].pc = "rl_time", ![t].Key = api_key]
    /\ UNCHANGED <<now, rate_timer, api_key, secret_key, connection,
                   sent, log, nfail>>

\* What lines 138-139 raise: the exception of requests.post, or the one of
\* ret.json() on a body that is not JSON.
PostRaises(o) ==
    IF o.exc # "none" THEN o.exc
    ELSE IF ~ValidJson(o.body) THEN "JSONDecodeError" ELSE "none"

\* lines 136-150: requests.post, ret.json(), the except clause
Post(t) ==
    /\ thr[t].pc = "post"
    /\ \E o \in PostOutcomes :
         LET f == [thr[t] EXCEPT !.attempts = @ + 1, !.hist = Append(@, o)] IN
         /\ IsFailure(o) => nfail < MaxFails
         /\ nfail' = IF IsFailure(o) THEN nfail + 1 ELSE nfail
         /\ IF PostRaises(o) = "none"
            THEN Return(t, f, Returned(JsonLoads(o.body), "body"))
            ELSE IF PostRaises(o) \in CaughtErrors
                 THEN IF Retries(f, o)
                      THEN /\ thr' = [thr EXCEPT ![t] =
                                        [f EXCEPT !.pc = "backoff", !.failed = now,
                                                  !.wake = BackoffWake(now)]]
                           /\ UNCHANGED connection
                      ELSE Return(t, f, Returned(EmptyDict, "except"))
                 ELSE Raise(t, f, PostRaises(o))
    /\ sent' = Append(sent, [Key |-> thr[t].Key, secret |-> thr[t].secret,
                             nonce |-> thr[t].nonce])
    /\ UNCHANGED <<now, rate_timer, api_key, secret_key, log>>

\* ---- update_keys (lines 152-170) ----
StartUpdate(t) ==
    /\ thr[t].pc = "idle"
    /\ \E c \in Credentials, a \in BOOLEAN :
         thr' = [thr EXCEPT ![t] = [IdleFrame EXCEPT !.pc = "uk_api", !.kind = "update",
                                                     !.args = c, !.auto_init = a]]
    /\ UNCHANGED <<now, rate_timer, api_key, secret_key, connection,
                   sent, log, nfail>>

\* line 164: self.api_key = api
UKApi(t) ==
    /\ thr[t].pc = "uk_api"
    /\ api_key' = thr[t].args.key
    /\ thr' = [thr EXCEPT ![t].pc = "uk_secret"]
    /\ UNCHANGED <<now, rate_timer, secret_key, connection, sent, log, nfail>>

\* line 165: self.secret_key = secret_key (the text, as passed)
UKSecret(t) ==
    /\ thr[t].pc = "uk_secret"
    /\ secret_key' = Text(thr[t].args.secret)
    /\ thr' = [thr EXCEPT ![t].pc = "uk_conn"]
    /\ UNCHANGED <<now, rate_timer, api_key, connection, sent, log, nfail>>

\* lines 166-170: initialize() reads the balances property, a signed_query
\* with the default retries; otherwise the connection flag is cleared.
UKConn(t) ==
    /\ thr[t].pc = "uk_conn"
    /\ IF thr[t].auto_init
       THEN /\ thr' = [thr EXCEPT ![t].pc = "nonce", ![t].kind = "signed", ![t].init = TRUE,
                                  ![t].retries0 = DefaultRetries,
                                  ![t].retries = DefaultRetries]
            /\ UNCHANGED connection
       ELSE /\ thr' = [thr EXCEPT ![t] =
                              Finished(thr[t], Returned(EmptyDict, "update_keys"))]
            /\ connection' = FALSE
    /\ UNCHANGED <<now, rate_timer, api_key, secret_key, sent, log, nfail>>

\* ---- initialize (lines 59-72) ----
\* line 67: if self.balances, the property of lines 217-220, a signed_query
\* of returnBalances with the default retries.  The constructor with
\* auto_init set (line 45) runs the same call on the same fields.
StartInitialize(t) ==
    /\ thr[t].pc = "idle"
    /\ thr' = [thr EXCEPT ![t] = [IdleFrame EXCEPT !.pc = "nonce", !.kind = "signed",
                                                !.init = TRUE,
                                                !.retries0 = DefaultRetries,
                                                !.retries = DefaultRetries]]
    /\ UNCHANGED <<now, rate_timer, api_key, secret_key, connection,
                   sent, log, nfail>>

\* ---- __repr__ (lines 49-54) ----
\* str.format of a field: the text itself, or b'...' around a byte string.
Format(s) == IF s.type = "bytes" THEN <<"b'", s.text, "'">> ELSE <<s.text>>

\* line 54: "{c} (Key: {a}, Secret: {s}, Connected: {con})".format(...)
ReprText(a, s, con) ==
    <<"Poloniex", " (Key: ", a, ", Secret: ">> \o Format(s)
        \o <<", Connected: ", IF con THEN "True" ELSE "False", ")">>

\* repr(client): the call reads the three fields and returns the text.
Repr(t) ==
    /\ thr[t].pc = "idle"
    /\ thr' = [thr EXCEPT ![t] =
                  [IdleFrame EXCEPT !.kind = "repr",
                                    !.text = ReprText(api_key, secret_key, connection),
                                    !.result = Returned(EmptyDict, "repr")]]
    /\ UNCHANGED <<now, rate_timer, api_key, secret_key, connection,
                   sent, log, nfail>>

\* ---- specifications ----
\* The steps inside rate_limit.
RateLimitBody(t) ==
    \/ RLTime(t) \/ RLAppend(t) \/ RLLen(t) \/ RLRead4(t) \/ RLRead0(t)
    \/ RLSleep(t) \/ RLWake(t) \/ RLPop(t)

\* The steps inside rate_limit, public_query and signed_query.
QueryBody(t) ==
    \/ RateLimitBody(t)
    \/ Urlopen(t) \/ Backoff(t)
    \/ SQNonce(t) \/ SQSign(t) \/ SQHeaders(t) \/ Post(t)

\* The steps inside update_keys.
RotateBody(t) == UKApi(t) \/ UKSecret(t) \/ UKConn(t)

\* The caller's budget: calls are begun while fewer than `admits` admissions
\* are on the log, signed ones while fewer than `signed` requests were sent.
QueryStart(t, admits, signed) ==
    \/ Len(log) < admits /\ StartPublic(t)
    \/ Len(log) < admits /\ Len(sent) < signed /\ StartSigned(t)

\* One caller issuing queries, one call at a time, with the credentials of
\* the constructor.
Next ==
    \/ Tick
    \/ QueryStart(MainThread, MaxAdmits, MaxSigned)
    \/ QueryBody(MainThread)

Spec == Init /\ [][Next]_vars

\* One caller issuing queries, verifying and rotating the credentials and
\* printing the client.
NextKeys ==
    \/ Tick
    \/ QueryStart(MainThread, MaxKeysAdmits, MaxKeysSigned)
    \/ Len(log) < MaxKeysAdmits /\ Len(sent) < MaxKeysSigned /\ StartInitialize(MainThread)
    \/ thr[MainThread].kind # "repr" /\ Repr(MainThread)
    \/ QueryBody(MainThread)
    \/ StartUpdate(MainThread)
    \/ RotateBody(MainThread)

SpecKeys == Init /\ [][NextKeys]_vars

\* Several threads on the one client, each issuing one call, from the
\* moment three queries of the first tick have been admitted and answered
\* (WindowOfThree, a state Spec reaches with the caller idle).
Admitted(n) == [i \in 1..n |-> [start |-> 0, ret |-> 0, delay |-> 0, client |-> "A"]]

WindowOfThree ==
    /\ now = 0
    /\ rate_timer = [i \in 1..(WindowIndex - 1) |-> 0]
    /\ api_key = InitialCredentials.key
    /\ secret_key = Latin1Bytes(InitialCredentials.secret)
    /\ connection = FALSE
    /\ sent = <<>>
    /\ log = Admitted(WindowIndex - 1)
    /\ nfail = 0

InitConc ==
    /\ WindowOfThree
    /\ thr = [t \in Threads |-> IdleFrame]

Fresh(t) == thr[t].kind = "none"

NextConc ==
    \/ Tick
    \/ \E t \in Threads :
         \/ Fresh(t) /\ StartPublic(t)
         \/ Fresh(t) /\ StartSigned(t)
         \/ Fresh(t) /\ StartUpdate(t)
         \/ QueryBody(t)
         \/ RotateBody(t)

SpecConc == InitConc /\ [][NextConc]_vars

\* One caller verifying and rotating the credentials between queries, from
\* the moment three queries of the first tick have been answered.
NextVerify ==
    \/ Tick
    \/ QueryStart(MainThread, MaxVerifyAdmits, MaxVerifySigned)
    \/ Len(log) < MaxVerifyAdmits /\ Len(sent) < MaxVerifySigned /\ StartInitialize(MainThread)
    \/ QueryBody(MainThread)
    \/ StartUpdate(MainThread)
    \/ RotateBody(MainThread)

SpecVerify == InitConc /\ [][NextVerify]_vars

\* Values of the retries argument, a negative one among them.
RetryArgs == {-1} \cup (0..MaxRetries)

\* One caller issuing queries with any retries argument.  The caller runs
\* each call to its end, time passes, and every transport call is answered.
NextLive ==
    \/ Tick
    \/ Len(log) < MaxVerifyAdmits /\ StartPublicWith(MainThread, RetryArgs)
    \/ /\ Len(log) < MaxVerifyAdmits /\ Len(sent) < MaxVerifySigned
       /\ StartSignedWith(MainThread, RetryArgs)
    \/ QueryBody(MainThread)

SpecLive ==
    /\ InitConc /\ [][NextLive]_vars
    /\ WF_vars(Tick) /\ WF_vars(QueryBody(MainThread))

\* One caller calling rate_limit through two instances of the class.
NextClients ==
    \/ Tick
    \/ \E c \in Clients : Len(log) < MaxClientAdmits /\ StartRateLimit(MainThread, c)
    \/ RateLimitBody(MainThread)

SpecClients == Init /\ [][NextClients]_vars

\* ---- properties ----
OneSecond == RateSeconds * TicksPerSec

\* Thread t has finished a call and its result is on record.
Done(t) == thr[t].pc = "idle" /\ thr[t].result.tag # "none"

SameCredentials(a, b) == a.Key = b.Key /\ a.secret = b.secret

\* urlopen raised HTTPError with a 5xx code.
IsServerError(o) == o.exc = "HTTPError" /\ HasServerCode(o)

\* requests.post delivered a Response with a 5xx status.
IsServerResponse(o) == o.exc = "none" /\ HasServerCode(o)

\* The transport delivered a 200 with a JSON body.
IsSuccess(o) == o.exc = "none" /\ o.code = 200 /\ ValidJson(o.body)

\* The transport failed with 5xx on every attempt but possibly the last,
\* which failed with 5xx or succeeded.
FailsThenSucceeds(h) ==
    \A i \in 1..Len(h) : IsServerError(h[i]) \/ (i = Len(h) /\ IsSuccess(h[i]))

\* C1: the nonces of the signed requests sent with the same credentials
\* are strictly increasing in the order of sending.
NonceStrictlyIncreasing ==
    \A i, j \in 1..Len(sent) :
        (i < j /\ SameCredentials(sent[i], sent[j])) => sent[i].nonce < sent[j].nonce

\* C2: a public_query whose transport failed with 5xx K times and then
\* succeeded returned the decoded body after K+1 attempts, with K <= retries;
\* one whose transport failed with 5xx on every attempt returned the failure
\* result after retries+1 attempts.
PublicRetryCount ==
    LET f == thr[MainThread]
        h == f.hist
        n == Len(h)
    IN  (Done(MainThread) /\ f.kind = "public" /\ n > 0 /\ FailsThenSucceeds(h)) =>
            IF IsSuccess(h[n])
            THEN /\ n - 1 <= f.retries0
                 /\ f.attempts = n
                 /\ f.result = Returned(JsonLoads(h[n].body), "body")
            ELSE /\ n = f.retries0 + 1
                 /\ f.attempts = n
                 /\ f.result = Returned(EmptyDict, "except")

\* C2 witness: a public_query with retries = 1 met one 5xx, retried and
\* returned the body of the second attempt.
PublicRetryWitness ==
    LET f == thr[MainThread] IN
    /\ Done(MainThread) /\ f.kind = "public" /\ f.retries0 = 1
    /\ Len(f.hist) = 2 /\ IsServerError(f.hist[1]) /\ IsSuccess(f.hist[2])
    /\ f.result.via = "body"

\* C3: a signed_query whose transport answered 5xx on every attempt made
\* retries+1 attempts, each with a nonce of its own, and returned the
\* failure result.
SignedRetriesServerErrors ==
    LET f == thr[MainThread]
        h == f.hist
    IN  (/\ Done(MainThread) /\ f.kind = "signed" /\ ~f.init
         /\ Len(h) > 0 /\ \A i \in 1..Len(h) : IsServerResponse(h[i])) =>
            /\ f.attempts = f.retries0 + 1
            /\ f.result = Returned(EmptyDict, "except")
            /\ Len(f.nonces) = f.attempts
            /\ \A i, j \in 1..Len(f.nonces) : i # j => f.nonces[i] # f.nonces[j]

\* C4: from the empty window, the 5th rate_limit call returns at least one
\* second after the 1st began, blocking when the five began within one
\* second; a 6th begun at least one second after that return is not delayed.
RateLimitFifthBlocks ==
    /\ Len(log) >= 5 =>
         /\ log[5].ret - log[1].start >= OneSecond
         /\ (log[5].start - log[1].start < OneSecond => log[5].delay > 0)
    /\ (Len(log) >= 6 /\ log[6].start >= log[5].ret + OneSecond) => log[6].delay = 0

\* C4 witness: five calls begun in the same tick, the 5th delayed, and a
\* 6th begun a second or more after the 5th returned, not delayed.
RateLimitFifthWitness ==
    /\ Len(log) >= 6
    /\ log[5].start = log[1].start /\ log[5].delay > 0
    /\ log[6].start >= log[5].ret + OneSecond /\ log[6].delay = 0

\* C5: any six consecutive returns of rate_limit span at least one second.
SixReturnsSpanOneSecond ==
    \A i \in 1..Len(log) :
        i + 5 <= Len(log) => log[i + 5].ret - log[i].ret >= OneSecond

\* C5 witness: six consecutive returns exactly one second apart end to
\* end, the 5th having been delayed and the 6th let through on its heels.
SixReturnsWitness ==
    /\ Len(log) >= 6
    /\ log[5].delay > 0
    /\ log[6].ret = log[5].ret
    /\ log[6].ret - log[1].ret = OneSecond

\* C6: every signed request sent carries an access key and a signature
\* secret of one credential pair.
SentWithOnePair ==
    \A i \in 1..Len(sent) : [key |-> sent[i].Key, secret |-> sent[i].secret] \in Credentials

\* C7: no two signed requests sent with the same credentials carry the
\* same nonce.
NoNonceReuse ==
    \A i, j \in 1..Len(sent) :
        (i # j /\ SameCredentials(sent[i], sent[j])) => sent[i].nonce # sent[j].nonce

\* C8: no rate_limit call fails: none ends in the IndexError of reading
\* or evicting an entry another caller has removed.
RateLimitNeverFails ==
    \A t \in Threads : thr[t].result.exc # "IndexError"

\* C9: a finished query recorded as many admissions as it made transport
\* attempts, and a signed one generated as many nonces.
AdmissionsMatchAttempts ==
    \A t \in Threads :
        (Done(t) /\ thr[t].kind \in {"public", "signed"}) =>
            /\ thr[t].admits = thr[t].attempts
            /\ thr[t].kind = "signed" => Len(thr[t].nonces) = thr[t].attempts

\* C10: the value returned after an unrecoverable failure differs from the
\* value returned by every successful call.
FailureDistinguishable ==
    \A a, b \in Threads :
        (/\ Done(a) /\ thr[a].result.via = "except"
         /\ Done(b) /\ thr[b].result.via = "body") =>
            thr[a].result.value # thr[b].result.value

\* The last transport outcome of a call.
Last(h) == h[Len(h)]

\* C11: once initialize() has run its balances call, the connection flag
\* is True exactly if the call succeeded; after a failed call or a
\* rejection by the exchange it is False.
ConnectionIffBalancesSucceeded ==
    LET f == thr[MainThread] IN
    (Done(MainThread) /\ f.init /\ Len(f.hist) > 0) =>
        (connection <=> IsSuccess(Last(f.hist)))

\* C12: the text __repr__ returned is the text a client with the same access
\* key and connection flag but any other secret would have returned.
ReprHidesSecret ==
    LET f == thr[MainThread] IN
    (Done(MainThread) /\ f.kind = "repr") =>
        \A c \in Credentials :
            f.text = ReprText(api_key, [secret_key EXCEPT !.text = c.secret], connection)

\* The positions inside rate_limit.
RateLimitPcs ==
    {"rl_time", "rl_append", "rl_len", "rl_read4", "rl_read0", "rl_sleep", "rl_wake", "rl_pop"}

\* The caller's query (not the balances call of initialize) has finished.
QueryDone(f) == Done(MainThread) /\ f.kind \in {"public", "signed"} /\ ~f.init

\* The transport raised an error that carries no HTTP status code.
IsNetworkFailure(o) == o.exc # "none" /\ o.code = 0

\* The transport failed with an HTTP 4xx status, raised or delivered.
IsClientError(o) == o.exc \in {"none", "HTTPError"} /\ o.code \in 400..(ServerErrorLow - 1)

\* The transport delivered a response whose body is not JSON.
IsUndecodable(o) == o.exc = "none" /\ ~ValidJson(o.body)

\* A value was returned and it tells of the failure: the empty dict of the
\* except clause, or the decoded error body of the exchange.
FailureResult(res) ==
    /\ res.tag = "return"
    /\ res.value = EmptyDict \/ \E p \in res.value : p[1] = "error"

\* C13: a signed attempt is admitted by the rate limiter before its nonce is
\* generated: while it is inside rate_limit (waiting included) every nonce
\* generated so far has been sent.
NonceAfterAdmission ==
    \A t \in Threads :
        (thr[t].kind = "signed" /\ thr[t].pc \in RateLimitPcs) =>
            Len(thr[t].nonces) = thr[t].attempts

ClientErrorSurfacedAtOnce ==
    LET f == thr[MainThread] IN
    /\ (QueryDone(f) /\ Len(f.hist) > 0 /\ IsClientError(f.hist[1])) =>
            (f.attempts = 1 /\ FailureResult(f.result))
    /\ (f.pc = "backoff" /\ ~f.init) => ~IsClientError(Last(f.hist))

\* C16: a query whose transport delivered a body that is not JSON made
\* that one attempt and returned a value; no exception left the query.
DecodeErrorReturned ==
    LET f == thr[MainThread] IN
    (QueryDone(f) /\ Len(f.hist) > 0 /\ IsUndecodable(f.hist[1])) =>
        (f.attempts = 1 /\ f.result.tag = "return")

\* C17: the stored secret is the latin-1 byte string of its text, and no
\* call fails computing a signature with it.
SecretIsBytes ==
    /\ secret_key = Latin1Bytes(secret_key.text)
    /\ \A t \in Threads : thr[t].result.exc # "TypeError"

\* The admissions made through client c, in order.
ClientLog(c) == SelectSeq(log, LAMBDA e : e.client = c)

\* The delay of the k-th admission of l if l were all a window has seen:
\* the wait that brings it one second after the admission four before it.
WindowDelay(l, k) ==
    IF k > WindowIndex /\ l[k].start - l[k - WindowIndex].start <= OneSecond
    THEN OneSecond - (l[k].start - l[k - WindowIndex].start)
    ELSE 0

\* C18: the delay of every admission through a client is the delay its own
\* admissions alone account for.
WindowPerClient ==
    \A c \in Clients :
        \A k \in 1..Len(ClientLog(c)) :
            ClientLog(c)[k].delay = WindowDelay(ClientLog(c), k)

\* C18 as amended: the delay of every admission is the delay the admissions
\* of all clients together account for.
WindowSharedByClients ==
    \A k \in 1..Len(log) : log[k].delay = WindowDelay(log, k)

\* C18 witness: four admissions through client A and then the first one
\* through client B in the same second, which is made to wait.
SharedWindowWitness ==
    /\ Len(log) > WindowIndex
    /\ \A k \in 1..WindowIndex : log[k].client = "A"
    /\ log[WindowIndex + 1].client = "B"
    /\ log[WindowIndex + 1].delay > 0

\* The caller is inside a query of its own (not the balances call of
\* initialize).
InQuery(f) == f.pc # "idle" /\ f.kind \in {"public", "signed"} /\ ~f.init

\* C19: no step of a public_query or signed_query changes the connection
\* flag, the access key or the secret key.
QueriesLeaveFieldsAlone ==
    [][InQuery(thr[MainThread]) => UNCHANGED <<connection, api_key, secret_key>>]_vars

\* C19 witness: a query has failed on a client whose connection flag
\* initialize() had set, and the flag is still set.
FlagSurvivesFailureWitness ==
    /\ QueryDone(thr[MainThread])
    /\ thr[MainThread].result = Returned(EmptyDict, "except")
    /\ connection

Max(a, b) == IF a >= b THEN a ELSE b

\* C20: every query made at most max(retries, 0) + 1 transport attempts, and
\* every query begun comes to its end.
QueriesTerminate ==
    /\ [](thr[MainThread].kind \in {"public", "signed"} =>
             thr[MainThread].attempts <= Max(thr[MainThread].retries0, 0) + 1)
    /\ (thr[MainThread].pc # "idle") ~> (thr[MainThread].pc = "idle")

\* C20 witness: a public_query with retries = 1 has ended after both of its
\* attempts.
AllAttemptsUsedWitness ==
    LET f == thr[MainThread] IN
    /\ QueryDone(f) /\ f.kind = "public"
    /\ f.retries0 = 1 /\ f.attempts = 2

\* The caller's query is in a second or later attempt and has entered
\* rate_limit for it (f.t is the moment it did).
RetryAdmitted(f) ==
    /\ f.kind \in {"public", "signed"} /\ f.attempts > 0
    /\ f.pc \in (RateLimitPcs \ {"rl_time"}) \cup {"urlopen", "post"}

\* C21: a retry follows a 5xx failure, enters rate_limit three seconds or
\* more after that failure and runs with a budget one smaller per attempt
\* made; the backoff wait is only ever left for that next attempt, with the
\* budget one smaller, never for a return.
BackoffThenRetry ==
    /\ [](LET f == thr[MainThread] IN
           RetryAdmitted(f) =>
               /\ HasServerCode(f.hist[f.attempts])
               /\ f.t >= f.failed + BackoffSeconds * TicksPerSec
               /\ f.retries = f.retries0 - f.attempts)
    /\ [][(thr[MainThread].pc = "backoff" /\ thr'[MainThread].pc # "backoff") =>
             /\ thr'[MainThread].pc \in {"rl_time", "nonce"}
             /\ thr'[MainThread].retries = thr[MainThread].retries - 1
             /\ now >= thr[MainThread].failed + BackoffSeconds * TicksPerSec]_vars

\* C21 witness: a public_query with retries = 1 is in its second attempt,
\* admitted exactly three seconds after the 5xx failure of its first, with
\* no budget left.
BackoffWitness ==
    LET f == thr[MainThread] IN
    /\ f.kind = "public" /\ f.pc = "urlopen" /\ f.attempts = 1
    /\ f.retries0 = 1 /\ f.retries = 0
    /\ IsServerError(f.hist[1])
    /\ f.t = f.failed + BackoffSeconds * TicksPerSec

\* The caller is inside rate_limit and has appended its timestamp.
Appended(f) == f.pc \in RateLimitPcs \ {"rl_time", "rl_append"}

\* Every timestamp appended to the window so far, in the order of appending:
\* those of the calls that returned and that of the call in progress.
Timestamps ==
    [i \in 1..Len(log) |-> log[i].start]
        \o (IF Appended(thr[MainThread]) THEN <<thr[MainThread].t>> ELSE <<>>)

\* The last n elements of s.
LastOf(s, n) == SubSeq(s, Len(s) - n + 1, Len(s))

\* C22: the window holds at most 5 timestamps, at most 4 when no rate_limit
\* call is in progress, and they are the most recent timestamps appended,
\* in the order of appending.
WindowHoldsMostRecent ==
    /\ Len(rate_timer) <= WindowIndex + 1
    /\ thr[MainThread].pc \notin RateLimitPcs => Len(rate_timer) <= WindowIndex
    /\ Len(rate_timer) <= Len(Timestamps)
    /\ rate_timer = LastOf(Timestamps, Len(rate_timer))

\* C22 witness: with the caller between calls, the window is full with
\* four timestamps of which the oldest admissions have been evicted and
\* which are not all alike.
WindowEvictedWitness ==
    /\ thr[MainThread].pc = "idle"
    /\ Len(rate_timer) = WindowIndex
    /\ Len(log) > WindowIndex + 1
    /\ rate_timer[1] < rate_timer[WindowIndex]
    /\ log[1].start < rate_timer[1]

====
